---------------------------- MODULE Spec2Model ----------------------------
(***************************************************************************)
(* A model of src/src/graph.rs: the Graph container (nodes, edges),        *)
(* visit_breadth_first and shortest_path.                                  *)
(*                                                                         *)
(* NodeIdentifier is a 0-based index; TLA+ sequences are 1-based, so node  *)
(* i lives at nodes[i + 1] and its edge list at edges[i + 1].  An indexing *)
(* failure of the source (a Vec index out of bounds, an unwrap of None) is *)
(* an outcome of the call: the call ends with status "out_of_bounds" or    *)
(* "unwrap_none" and nothing it had not already written is changed.        *)
(* Edge costs are naturals (V: Unsigned fixes no width).                   *)
(***************************************************************************)
EXTENDS Naturals, Sequences, FiniteSets, Bags

VARIABLES
    nodes,            \* Graph.nodes: Vec<T>
    edges,            \* Graph.edges: Vec<Vec<Edge<V>>>
    insertLog,        \* history: <<value given, identifier returned>> per insert
    connectLog,       \* history: the (from, to) pairs of the connect calls that returned
    pc,               \* "idle", the loop a call is in, or "returned"
    ret,              \* outcome of the call that has returned
    from_index,       \* visit_breadth_first: the start node
    queue,            \* visit_breadth_first: nodes to be visited
    visited,          \* visit_breadth_first: nodes already enqueued
    should_continue,  \* visit_breadth_first: the visitor's last answer
    visitLog,         \* history: the visitor calls of the traversal, in order
    from_node,        \* shortest_path: the start node
    to_node,          \* shortest_path: the target node
    dist,             \* shortest_path: Vec<Option<V>>
    prev,             \* shortest_path: Vec<Option<NodeIdentifier>>
    pq,               \* shortest_path: PriorityQueue<NodeCost<V>>, as a bag
    path,             \* shortest_path: the path traced back so far
    current           \* shortest_path: the node the backward walk is at

graphVars == <<nodes, edges, insertLog, connectLog>>
bfsVars == <<from_index, queue, visited, should_continue, visitLog>>
spVars == <<from_node, to_node, dist, prev, pq, path, current>>
vars == <<nodes, edges, insertLog, connectLog, pc, ret,
          from_index, queue, visited, should_continue, visitLog,
          from_node, to_node, dist, prev, pq, path, current>>

----------------------------------------------------------------------------
(* Bounds of the model. *)

\* Container specification (Spec).
MaxNodes == 3
MaxEdges == 2
\* Traversal specification (SpecBFS).
BfsMaxNodes == 4
BfsMaxEdges == 3
\* Shortest-path specification (SpecSP).
SpMaxNodes == 3
SpMaxEdges == 3

Payloads == {"a", "b"}
Costs == {0, 1, 3}
Unit == {0}

----------------------------------------------------------------------------
(* Option<X>: None is the empty sequence, Some(x) the one-element one. *)

None == <<>>
Some(x) == <<x>>
is_some(o) == o # None
unwrap(o) == o[1]

\* How a call ended.
Ok(op, args, v) == [op |-> op, args |-> args, status |-> "ok", val |-> v]
Failed(op, args, why) == [op |-> op, args |-> args, status |-> why, val |-> None]
NoCall == Ok("none", <<>>, None)

Edge(data, dest) == [data |-> data, dest |-> dest]

----------------------------------------------------------------------------
(* The container's read operations, as functions of the graph. *)

node_count == Len(nodes)

\* &self.nodes[index]
get(index) ==
    IF index < Len(nodes) THEN Ok("get", <<index>>, nodes[index + 1])
    ELSE Failed("get", <<index>>, "out_of_bounds")

\* &self.edges[for_node]
connections(for_node) ==
    IF for_node < Len(edges) THEN Ok("connections", <<for_node>>, edges[for_node + 1])
    ELSE Failed("connections", <<for_node>>, "out_of_bounds")

\* The first edge of from_index's list whose dest is to_index.
OnlyFirstEdge(list, to_index) ==
    IF list # <<>> /\ list[1].dest = to_index THEN Some(list[1]) ELSE None

FirstMatch(list, to_index) ==
    LET hits == {i \in 1..Len(list) : list[i].dest = to_index}
    IN  IF hits = {} THEN None
        ELSE Some(list[CHOOSE i \in hits : \A j \in hits : i <= j])

connection(a, b) ==
    LET c == connections(a)
    IN  IF c.status = "ok" THEN Ok("connection", <<a, b>>, FirstMatch(c.val, b))
        ELSE Failed("connection", <<a, b>>, c.status)

connected(a, b) ==
    LET c == connection(a, b)
    IN  IF c.status = "ok" THEN Ok("connected", <<a, b>>, is_some(c.val))
        ELSE Failed("connected", <<a, b>>, c.status)


----------------------------------------------------------------------------
(* State after Graph::new(). *)

Init ==
    /\ nodes = <<>>
    /\ edges = <<>>
    /\ insertLog = <<>>
    /\ connectLog = {}
    /\ pc = "idle"
    /\ ret = NoCall
    /\ from_index = 0
    /\ from_node = 0
    /\ to_node = 0
    /\ queue = <<>>
    /\ visited = {}
    /\ should_continue = TRUE
    /\ visitLog = <<>>
    /\ dist = <<>>
    /\ prev = <<>>
    /\ pq = EmptyBag
    /\ path = <<>>
    /\ current = 0

\* The locals of a call, as they are when no call is in progress.
NoLocals ==
    /\ from_index' = 0
    /\ from_node' = 0
    /\ to_node' = 0
    /\ queue' = <<>>
    /\ visited' = {}
    /\ should_continue' = TRUE
    /\ visitLog' = <<>>
    /\ dist' = <<>>
    /\ prev' = <<>>
    /\ pq' = EmptyBag
    /\ path' = <<>>
    /\ current' = 0

----------------------------------------------------------------------------
(* Graph::insert and Graph::connect, as functions of the graph: a graph is *)
(* the record of nodes, edges and the two histories.                       *)

TheGraph == [nodes |-> nodes, edges |-> edges, ilog |-> insertLog, clog |-> connectLog]

\* insert: node_index = nodes.len(); nodes.push(value); edges.push(Vec::new());
\* node_index is returned.
NodeIndexAfterPush(g) == Len(g.nodes) + 1

NodeIndex(g) == Len(g.nodes)

InsertInto(g, value) ==
    [g EXCEPT !.nodes = Append(@, value),
              !.edges = Append(@, <<>>),
              !.ilog = Append(@, <<value, NodeIndex(g)>>)]

\* connect: edges.get_mut(from_index) fails out of bounds; else push the edge.
CanConnectOffByOne(g, a) == a <= Len(g.edges)

CanConnect(g, a) == a < Len(g.edges)

ConnectIn(g, a, b, data) ==
    [g EXCEPT !.edges[a + 1] = Append(@, Edge(data, b)),
              !.clog = @ \cup {<<a, b>>}]

EdgeCountOf(g) ==
    LET RECURSIVE Sum(_)
        Sum(i) == IF i = 0 THEN 0 ELSE Len(g.edges[i]) + Sum(i - 1)
    IN  Sum(Len(g.edges))

SetGraph(g) ==
    /\ nodes' = g.nodes
    /\ edges' = g.edges
    /\ insertLog' = g.ilog
    /\ connectLog' = g.clog

Insert(maxNodes, values) ==
    /\ pc = "idle"
    /\ Len(nodes) < maxNodes
    /\ \E value \in values :
          /\ SetGraph(InsertInto(TheGraph, value))
          /\ ret' = Ok("insert", <<value>>, NodeIndex(TheGraph))
    /\ pc' = "returned"
    /\ UNCHANGED <<bfsVars, spVars>>

Connect(maxNodes, maxEdges, costs) ==
    /\ pc = "idle"
    /\ \E a \in 0..maxNodes, b \in 0..(maxNodes - 1), data \in costs :
          IF CanConnect(TheGraph, a)
          THEN /\ EdgeCountOf(TheGraph) < maxEdges
               /\ SetGraph(ConnectIn(TheGraph, a, b, data))
               /\ ret' = Ok("connect", <<a, b, data>>, None)
          ELSE /\ UNCHANGED graphVars
               /\ ret' = Failed("connect", <<a, b, data>>, "out_of_bounds")
    /\ pc' = "returned"
    /\ UNCHANGED <<bfsVars, spVars>>

\* insert_all: insert each value in order; the identifiers in the same order.
RECURSIVE InsertAllInto(_, _, _)
InsertAllInto(g, values, node_indexes) ==
    IF values = <<>> THEN [graph |-> g, ids |-> node_indexes]
    ELSE InsertAllInto(InsertInto(g, Head(values)), Tail(values),
                       Append(node_indexes, NodeIndex(g)))

InsertAll(maxNodes, values) ==
    /\ pc = "idle"
    /\ \E v1 \in values, v2 \in values :
          LET r == InsertAllInto(TheGraph, <<v1, v2>>, <<>>)
          IN  /\ Len(r.graph.nodes) <= maxNodes
              /\ SetGraph(r.graph)
              /\ ret' = Ok("insert_all", <<v1, v2>>, r.ids)
    /\ pc' = "returned"
    /\ UNCHANGED <<bfsVars, spVars>>

\* connect_all: connect once per tuple, in order; the first failing connect
\* ends the call and the edges pushed before it stay.
RECURSIVE ConnectAllIn(_, _)
ConnectAllIn(g, conns) ==
    IF conns = <<>> THEN [graph |-> g, status |-> "ok"]
    ELSE LET c == Head(conns)
         IN  IF CanConnect(g, c[1])
             THEN ConnectAllIn(ConnectIn(g, c[1], c[2], c[3]), Tail(conns))
             ELSE [graph |-> g, status |-> "out_of_bounds"]

\* The calls drawn: connect_all([(a, b, data), (b, a, data)]).
ConnectAll(maxNodes, maxEdges, costs) ==
    /\ pc = "idle"
    /\ \E a \in 0..(maxNodes - 1), b \in 0..(maxNodes - 1), data \in costs :
          LET r == ConnectAllIn(TheGraph, <<(<<a, b, data>>), (<<b, a, data>>)>>)
          IN  /\ EdgeCountOf(r.graph) <= maxEdges
              /\ SetGraph(r.graph)
              /\ ret' = IF r.status = "ok" THEN Ok("connect_all", <<a, b, data>>, None)
                         ELSE Failed("connect_all", <<a, b, data>>, r.status)
    /\ pc' = "returned"
    /\ UNCHANGED <<bfsVars, spVars>>

\* The read operations, called with any identifier, valid or not.
Get(maxNodes) ==
    /\ pc = "idle"
    /\ \E index \in 0..maxNodes : ret' = get(index)
    /\ pc' = "returned"
    /\ UNCHANGED <<graphVars, bfsVars, spVars>>

Connections(maxNodes) ==
    /\ pc = "idle"
    /\ \E for_node \in 0..maxNodes : ret' = connections(for_node)
    /\ pc' = "returned"
    /\ UNCHANGED <<graphVars, bfsVars, spVars>>

Connection(maxNodes) ==
    /\ pc = "idle"
    /\ \E a \in 0..maxNodes, b \in 0..maxNodes : ret' = connection(a, b)
    /\ pc' = "returned"
    /\ UNCHANGED <<graphVars, bfsVars, spVars>>

Connected(maxNodes) ==
    /\ pc = "idle"
    /\ \E a \in 0..maxNodes, b \in 0..maxNodes : ret' = connected(a, b)
    /\ pc' = "returned"
    /\ UNCHANGED <<graphVars, bfsVars, spVars>>

NodeCount ==
    /\ pc = "idle"
    /\ ret' = Ok("node_count", <<>>, node_count)
    /\ pc' = "returned"
    /\ UNCHANGED <<graphVars, bfsVars, spVars>>

\* The caller takes the outcome of the call; the call's locals are gone.
Return ==
    /\ pc = "returned"
    /\ pc' = "idle"
    /\ ret' = NoCall
    /\ NoLocals
    /\ UNCHANGED graphVars

----------------------------------------------------------------------------
(* Graph::visit_breadth_first.  VisitStart is the set-up before the loop,  *)
(* VisitStep one iteration of the while loop; the iteration after which    *)
(* the loop condition is false also returns.  The visitor is any function  *)
(* to bool: each call answers TRUE or FALSE.                               *)

\* for edge in connections(current): if !visited.contains(dest) { push; insert }
RECURSIVE EnqueueUnmarked(_, _, _)
EnqueueUnmarked(list, q, seen) ==
    IF list = <<>> THEN [queue |-> q, visited |-> seen]
    ELSE LET edge == Head(list)
         IN  IF edge.dest \notin seen
             THEN EnqueueUnmarked(Tail(list), Append(q, edge.dest), seen)
             ELSE EnqueueUnmarked(Tail(list), q, seen)

RECURSIVE EnqueueAll(_, _, _)
EnqueueAll(list, q, seen) ==
    IF list = <<>> THEN [queue |-> q, visited |-> seen]
    ELSE LET edge == Head(list)
         IN  IF edge.dest \notin seen
             THEN EnqueueAll(Tail(list), Append(q, edge.dest), seen \cup {edge.dest})
             ELSE EnqueueAll(Tail(list), q, seen)

\* queue.remove(0)
DequeueLast(q) == [item |-> q[Len(q)], rest |-> SubSeq(q, 1, Len(q) - 1)]

Dequeue(q) == [item |-> Head(q), rest |-> Tail(q)]

\* while queue.len() > 0 && should_continue
LoopOnQueueOnly(q, cont) == Len(q) > 0

LoopOn(q, cont) == Len(q) > 0 /\ cont

VisitStart(maxNodes) ==
    /\ pc = "idle"
    /\ \E start \in 0..maxNodes :
          /\ from_index' = start
          /\ queue' = <<start>>
          /\ visited' = {start}
    /\ should_continue' = TRUE
    /\ visitLog' = <<>>
    /\ pc' = "bfs"
    /\ ret' = NoCall
    /\ UNCHANGED <<graphVars, spVars>>

VisitStep ==
    /\ pc = "bfs"
    /\ LoopOn(queue, should_continue)
    /\ LET d == Dequeue(queue)
           value == get(d.item)
       IN  IF value.status # "ok"
           THEN \* self.get(current) fails before the visitor is called
                /\ pc' = "returned"
                /\ ret' = Failed("visit_breadth_first", <<from_index>>, "out_of_bounds")
                /\ queue' = d.rest
                /\ UNCHANGED <<visited, should_continue, visitLog>>
           ELSE \E answer \in BOOLEAN :
                   LET e == EnqueueAll(connections(d.item).val, d.rest, visited)
                   IN  /\ should_continue' = answer
                       /\ visitLog' = Append(visitLog,
                              [node |-> d.item, value |-> value.val, answer |-> answer])
                       /\ queue' = e.queue
                       /\ visited' = e.visited
                       /\ IF LoopOn(e.queue, answer)
                          THEN pc' = pc /\ ret' = ret
                          ELSE /\ pc' = "returned"
                               /\ ret' = Ok("visit_breadth_first", <<from_index>>, None)
    /\ UNCHANGED <<graphVars, from_index, spVars>>

----------------------------------------------------------------------------
(* Graph::shortest_path.  PathStart is the set-up before the while loop,   *)
(* PathStep one iteration of it, WalkStep one iteration of the loop that   *)
(* traces the path back.  The iteration after which a loop ends also runs  *)
(* the code that follows the loop.                                         *)

NodeCost(node, cost) == [node |-> node, cost |-> cost]

\* Ord for NodeCost: cmp is other.cost.cmp(&self.cost), so self <= other
\* exactly when other.cost <= self.cost.
NodeCostLeUnreversed(self, other) == self.cost <= other.cost

NodeCostLe(self, other) == other.cost <= self.cost

\* PriorityQueue::pop returns a greatest element; which of several greatest
\* ones is the heap's business, so any of them may come out.
PopChoices(q) ==
    {e \in BagToSet(q) : \A f \in BagToSet(q) : NodeCostLe(f, e)}

Push(q, e) == q (+) SetToBag({e})
Remove(q, e) == q (-) SetToBag({e})

Reverse(seq) == [i \in 1..Len(seq) |-> seq[Len(seq) + 1 - i]]

\* Vec::from_elem(self.node_count(), None)
FromElem(n, x) == [i \in 1..n |-> x]

\* should_update_cost: the candidate is shorter than the recorded cost, or
\* no cost is recorded.
ShouldUpdateCost(recorded, cost_to_node) ==
    IF is_some(recorded) THEN cost_to_node < unwrap(recorded) ELSE TRUE

\* for edge in connections(current.node): the relaxation of each edge in
\* turn; dist[edge.dest] fails for a destination out of bounds.
RECURSIVE RelaxNoPrev(_, _, _, _, _)
RelaxNoPrev(list, cur, d, p, q) ==
    IF list = <<>> THEN [status |-> "ok", dist |-> d, prev |-> p, pq |-> q]
    ELSE LET edge == Head(list)
             cost_to_node == cur.cost + edge.data
         IN  IF ~(edge.dest < Len(d))
             THEN [status |-> "out_of_bounds", dist |-> d, prev |-> p, pq |-> q]
             ELSE IF ShouldUpdateCost(d[edge.dest + 1], cost_to_node)
                  THEN RelaxNoPrev(Tail(list), cur,
                                   [d EXCEPT ![edge.dest + 1] = Some(cost_to_node)],
                                   p,
                                   Push(q, NodeCost(edge.dest, cost_to_node)))
                  ELSE RelaxNoPrev(Tail(list), cur, d, p, q)

RECURSIVE Relax(_, _, _, _, _)
Relax(list, cur, d, p, q) ==
    IF list = <<>> THEN [status |-> "ok", dist |-> d, prev |-> p, pq |-> q]
    ELSE LET edge == Head(list)
             cost_to_node == cur.cost + edge.data
         IN  IF ~(edge.dest < Len(d))
             THEN [status |-> "out_of_bounds", dist |-> d, prev |-> p, pq |-> q]
             ELSE IF ShouldUpdateCost(d[edge.dest + 1], cost_to_node)
                  THEN Relax(Tail(list), cur,
                             [d EXCEPT ![edge.dest + 1] = Some(cost_to_node)],
                             [p EXCEPT ![edge.dest + 1] = Some(cur.node)],
                             Push(q, NodeCost(edge.dest, cost_to_node)))
                  ELSE Relax(Tail(list), cur, d, p, q)

\* Some(ShortestPathResult { cost: dist[to_node].unwrap(), path: reversed })
Result(d, p) ==
    Ok("shortest_path", <<from_node, to_node>>,
       Some([path |-> Reverse(p), cost |-> unwrap(d[to_node + 1])]))

\* The code after the while loop, up to the first iteration of the walk.
AfterLoop(d) ==
    IF ~(to_node < Len(d))
    THEN /\ pc' = "returned"
         /\ ret' = Failed("shortest_path", <<from_node, to_node>>, "out_of_bounds")
         /\ UNCHANGED <<path, current>>
    ELSE IF ~is_some(d[to_node + 1])
    THEN /\ pc' = "returned"
         /\ ret' = Ok("shortest_path", <<from_node, to_node>>, None)
         /\ UNCHANGED <<path, current>>
    ELSE IF to_node = from_node
    THEN /\ pc' = "returned"
         /\ path' = <<from_node>>
         /\ current' = to_node
         /\ ret' = Result(d, path')
    ELSE /\ pc' = "walk"
         /\ path' = <<>>
         /\ current' = to_node
         /\ ret' = ret

PathStart(maxNodes) ==
    /\ pc = "idle"
    /\ \E start \in 0..maxNodes, target \in 0..maxNodes :
          /\ from_node' = start
          /\ to_node' = target
          /\ IF start < node_count
             THEN /\ dist' = [FromElem(node_count, None) EXCEPT ![start + 1] = Some(0)]
                  /\ pq' = Push(EmptyBag, NodeCost(start, 0))
                  /\ pc' = "sp"
                  /\ ret' = NoCall
             ELSE \* dist.get_mut(from_node) fails
                  /\ dist' = FromElem(node_count, None)
                  /\ pq' = EmptyBag
                  /\ pc' = "returned"
                  /\ ret' = Failed("shortest_path", <<start, target>>, "out_of_bounds")
    /\ prev' = FromElem(node_count, None)
    /\ path' = <<>>
    /\ current' = 0
    /\ UNCHANGED <<graphVars, bfsVars>>

PathStep ==
    /\ pc = "sp"
    /\ \E cur \in PopChoices(pq) :
          LET rest == Remove(pq, cur)
          IN  IF cur.node = to_node
              THEN \* break
                   /\ pq' = rest
                   /\ UNCHANGED <<dist, prev>>
                   /\ AfterLoop(dist)
              ELSE LET r == Relax(connections(cur.node).val, cur, dist, prev, rest)
                   IN  /\ dist' = r.dist
                       /\ prev' = r.prev
                       /\ pq' = r.pq
                       /\ IF r.status # "ok"
                          THEN /\ pc' = "returned"
                               /\ ret' = Failed("shortest_path", <<from_node, to_node>>, r.status)
                               /\ UNCHANGED <<path, current>>
                          ELSE IF BagCardinality(r.pq) > 0
                          THEN /\ pc' = pc
                               /\ ret' = ret
                               /\ UNCHANGED <<path, current>>
                          ELSE AfterLoop(r.dist)
    /\ UNCHANGED <<graphVars, bfsVars, from_node, to_node>>

\* while current != from_node { path.push(current); current = prev[current].unwrap() }
\* and, when the loop ends, path.push(from_node); path.reverse().
WalkStep ==
    /\ pc = "walk"
    /\ Len(path) <= node_count
    /\ LET next == prev[current + 1]
       IN  /\ path' = IF is_some(next) /\ unwrap(next) = from_node
                      THEN Append(Append(path, current), from_node)
                      ELSE Append(path, current)
           /\ IF ~is_some(next)
              THEN /\ pc' = "returned"
                   /\ ret' = Failed("shortest_path", <<from_node, to_node>>, "unwrap_none")
                   /\ current' = current
              ELSE /\ current' = unwrap(next)
                   /\ IF unwrap(next) = from_node
                      THEN /\ pc' = "returned"
                           /\ ret' = Result(dist, path')
                      ELSE /\ pc' = pc
                           /\ ret' = ret
    /\ UNCHANGED <<graphVars, bfsVars, from_node, to_node, dist, prev, pq>>

----------------------------------------------------------------------------
(* The container specification: the graph is built by insert, insert_all,  *)
(* connect and connect_all, with any arguments.                            *)

Next ==
    \/ Insert(MaxNodes, Payloads)
    \/ InsertAll(MaxNodes, Payloads)
    \/ Connect(MaxNodes, MaxEdges, Unit)
    \/ ConnectAll(MaxNodes, MaxEdges, Unit)
    \/ Return

Spec == Init /\ [][Next]_vars

(* Every operation, on small graphs. *)

NextCalls ==
    \/ Insert(MaxNodes, {"a"})
    \/ InsertAll(MaxNodes, {"a"})
    \/ Connect(MaxNodes, MaxEdges, Unit)
    \/ ConnectAll(MaxNodes, MaxEdges, Unit)
    \/ Get(MaxNodes)
    \/ Connections(MaxNodes)
    \/ Connection(MaxNodes)
    \/ Connected(MaxNodes)
    \/ NodeCount
    \/ VisitStart(MaxNodes)
    \/ VisitStep
    \/ PathStart(MaxNodes)
    \/ PathStep
    \/ WalkStep
    \/ Return

\* A call runs to its end on the caller's thread: the loop it is in takes
\* its next iteration.
SpecCalls ==
    /\ Init /\ [][NextCalls]_vars
    /\ WF_vars(VisitStep) /\ WF_vars(PathStep) /\ WF_vars(WalkStep)

(* The traversal specification. *)

NextBFS ==
    \/ Insert(BfsMaxNodes, {"a"})
    \/ Connect(BfsMaxNodes, BfsMaxEdges, Unit)
    \/ VisitStart(BfsMaxNodes)
    \/ VisitStep
    \/ Return

SpecBFS == Init /\ [][NextBFS]_vars

(* The shortest-path specification. *)

NextSP ==
    \/ Insert(SpMaxNodes, {"a"})
    \/ Connect(SpMaxNodes, SpMaxEdges, Costs)
    \/ PathStart(SpMaxNodes)
    \/ PathStep
    \/ WalkStep
    \/ Return

SpecSP == Init /\ [][NextSP]_vars

----------------------------------------------------------------------------
(* What the claims speak of. *)

Ids == 0..(node_count - 1)

\* Every stored edge points at a node of the graph.
ValidTargets ==
    \A i \in 1..Len(edges) : \A j \in 1..Len(edges[i]) : edges[i][j].dest < node_count

\* The destinations of the edges stored for node n.
Successors(n) == {edges[n + 1][j].dest : j \in 1..Len(edges[n + 1])}

\* The nodes a directed path leads to from a node of S (S included).
RECURSIVE ReachableFrom(_)
ReachableFrom(S) ==
    LET T == S \cup UNION {Successors(n) : n \in S \cap Ids}
    IN  IF T = S THEN S ELSE ReachableFrom(T)

----------------------------------------------------------------------------
(* C7: after any sequence of insert, insert_all, connect and connect_all   *)
(* calls the k-th inserted node has identifier k - 1, get on it returns    *)
(* the payload given at its insertion, node_count is the number of         *)
(* inserts and there is one adjacency list per node; a connect or          *)
(* connect_all call changes no identifier, no payload and not node_count.  *)

InsertedAsGiven ==
    /\ node_count = Len(insertLog)
    /\ Len(edges) = node_count
    /\ \A k \in 1..Len(insertLog) :
          /\ insertLog[k][2] = k - 1
          /\ get(insertLog[k][2]) = Ok("get", <<k - 1>>, insertLog[k][1])

ConnectKeepsNodes ==
    (pc = "idle" /\ ret'.op \in {"connect", "connect_all"})
        => (nodes' = nodes /\ insertLog' = insertLog /\ Len(edges') = Len(edges))

Claim_C7 == []InsertedAsGiven /\ [][ConnectKeepsNodes]_vars

Witness_C7 ==
    /\ Len(insertLog) = 3
    /\ insertLog[1][1] # insertLog[2][1]
    /\ ret.op = "connect_all"
    /\ Cardinality(connectLog) = 2

(* C8: for valid a and b, connected(a, b) is true exactly when             *)
(* connection(a, b) returns an edge, and exactly when a connect(a, b, _)   *)
(* call has returned; a connect call changes connected(x, y) for no pair   *)
(* but the one it connects.                                                *)

ConnectedIffConnectCalled ==
    \A a \in Ids : \A b \in Ids :
        LET c == connection(a, b).val
        IN  /\ connected(a, b).val = is_some(c)
            /\ is_some(c) <=> (<<a, b>> \in connectLog)
            /\ is_some(c) => c[1].dest = b

\* The pairs the call that returns in this step was asked to connect.
PairsAsked ==
    IF ret'.op = "connect" THEN {<<ret'.args[1], ret'.args[2]>>}
    ELSE {<<ret'.args[1], ret'.args[2]>>, <<ret'.args[2], ret'.args[1]>>}

OnlyThePairConnected ==
    (pc = "idle" /\ ret'.op \in {"connect", "connect_all"}) =>
        \A x \in Ids : \A y \in Ids :
            <<x, y>> \notin PairsAsked => connected(x, y)' = connected(x, y)

Claim_C8 == []ConnectedIffConnectCalled /\ [][OnlyThePairConnected]_vars

Witness_C8 ==
    /\ node_count = 3
    /\ ret.op = "connect"
    /\ \E a \in Ids, b \in Ids, c \in Ids :
          /\ a # b /\ b # c /\ a # c
          /\ connectLog = {<<a, c>>, <<a, b>>}
          /\ edges[a + 1][1].dest = c
          /\ connected(a, b).val
          /\ ~connected(b, a).val

(* C9: connect with a valid from and to >= node_count fails and adds no    *)
(* edge, so every stored edge has a destination < node_count.              *)

Claim_C9 ==
    /\ (pc = "returned" /\ ret.op = "connect"
            /\ ret.args[1] < node_count /\ ~(ret.args[2] < node_count))
          => ret.status # "ok"
    /\ ValidTargets

----------------------------------------------------------------------------
(* The traversal, as the claims speak of it. *)

InTraversal == pc = "bfs"
TraversalReturned == pc = "returned" /\ ret.op = "visit_breadth_first"

VisitedNode(i) == visitLog[i].node
VisitedNodes == {VisitedNode(i) : i \in 1..Len(visitLog)}
NoNodeVisitedTwice ==
    \A i \in 1..Len(visitLog) : \A j \in 1..Len(visitLog) :
        VisitedNode(i) = VisitedNode(j) => i = j
AlwaysTrueSoFar == \A i \in 1..Len(visitLog) : visitLog[i].answer

\* The number of edges on a shortest directed path from from_index to n
\* (node_count when there is none).
RECURSIVE DepthFrom(_, _, _, _)
DepthFrom(n, frontier, seen, d) ==
    IF n \in frontier THEN d
    ELSE LET next == UNION {Successors(m) : m \in frontier \cap Ids} \ seen
         IN  IF next = {} THEN node_count
             ELSE DepthFrom(n, next, seen \cup next, d + 1)

Depth(n) == DepthFrom(n, {from_index}, {from_index}, 0)

\* The visitor call on which n was discovered: the first visited node with
\* an edge to n; and the place of the first such edge in its list.
Discoverer(n) ==
    LET hits == {i \in 1..Len(visitLog) : n \in Successors(VisitedNode(i))}
    IN  CHOOSE i \in hits : \A j \in hits : i <= j

EdgePlace(p, n) ==
    LET hits == {j \in 1..Len(edges[p + 1]) : edges[p + 1][j].dest = n}
    IN  CHOOSE j \in hits : \A k \in hits : j <= k

(* C4: on a graph with valid edge targets, from a valid start node and     *)
(* with a visitor that always answers true, the traversal terminates (a    *)
(* loop iteration is always possible and there are fewer iterations than   *)
(* reachable nodes), calls the visitor once for each node reachable from   *)
(* the start node and for no other node.                                   *)

Claim_C4 ==
    (ValidTargets /\ from_index \in Ids /\ AlwaysTrueSoFar) =>
        /\ InTraversal =>
              /\ ENABLED VisitStep
              /\ Len(visitLog) < Cardinality(ReachableFrom({from_index}))
              /\ NoNodeVisitedTwice
              /\ VisitedNodes \subseteq ReachableFrom({from_index})
        /\ TraversalReturned =>
              /\ ret.status = "ok"
              /\ NoNodeVisitedTwice
              /\ VisitedNodes = ReachableFrom({from_index})

\* A traversal that returned on a graph with a cycle, a self-loop and a
\* node out of reach.
Witness_C4 ==
    /\ TraversalReturned /\ ValidTargets /\ from_index \in Ids /\ AlwaysTrueSoFar
    /\ node_count = 4
    /\ Len(visitLog) = 2
    /\ \E n \in VisitedNodes : n # from_index /\ from_index \in Successors(n)
    /\ \E n \in VisitedNodes : n \in Successors(n)

(* C5: the visitor calls are in non-decreasing breadth-first depth from    *)
(* the start node, and nodes discovered from the same node are visited in  *)
(* the order of that node's edge list; nodes discovered from different     *)
(* nodes are visited in the order of their discoverers, so the graph alone *)
(* fixes the order of the calls.                                           *)

Claim_C5 ==
    \A i \in 1..Len(visitLog) : \A j \in 1..Len(visitLog) :
        i < j =>
            /\ Depth(VisitedNode(i)) <= Depth(VisitedNode(j))
            /\ Depth(VisitedNode(j)) < node_count
            /\ Discoverer(VisitedNode(j)) < j
            /\ i > 1 => Discoverer(VisitedNode(i)) <= Discoverer(VisitedNode(j))
            /\ (i > 1 /\ Discoverer(VisitedNode(i)) = Discoverer(VisitedNode(j))) =>
                  EdgePlace(VisitedNode(Discoverer(VisitedNode(i))), VisitedNode(i))
                      < EdgePlace(VisitedNode(Discoverer(VisitedNode(j))), VisitedNode(j))

\* Two children, the second-listed one with the smaller identifier, then a
\* grandchild below the first child.
Witness_C5 ==
    /\ TraversalReturned
    /\ Len(visitLog) = 4
    /\ Depth(VisitedNode(2)) = 1 /\ Depth(VisitedNode(3)) = 1
    /\ Depth(VisitedNode(4)) = 2
    /\ Discoverer(VisitedNode(4)) = 2
    /\ VisitedNode(3) < VisitedNode(2)

(* C6: once the visitor has answered false it is not called again in that  *)
(* traversal: the answer false is the last entry of the traversal's log,   *)
(* the call has returned, and the nodes left in the queue (enqueued        *)
(* earlier, or neighbours of the last node) were not visited.              *)

Claim_C6 ==
    /\ \A i \in 1..Len(visitLog) : ~visitLog[i].answer => i = Len(visitLog)
    /\ (visitLog # <<>> /\ ~visitLog[Len(visitLog)].answer) =>
          /\ pc = "returned"
          /\ ret = Ok("visit_breadth_first", <<from_index>>, None)
          /\ \A k \in 1..Len(queue) : queue[k] \notin VisitedNodes

\* The visitor answered false on the second node; a node enqueued before
\* and a neighbour of the second node are left in the queue.
Witness_C6 ==
    /\ TraversalReturned
    /\ Len(visitLog) = 2
    /\ ~visitLog[2].answer
    /\ Len(queue) = 2
    /\ queue[1] \in Successors(VisitedNode(1))
    /\ queue[2] \in Successors(VisitedNode(2)) \ Successors(VisitedNode(1))

----------------------------------------------------------------------------
(* The shortest path, as the claims speak of it. *)

PathReturned == pc = "returned" /\ ret.op = "shortest_path"

Least(S) == CHOOSE x \in S : \A y \in S : x <= y

\* The edges stored for a that lead to b.
EdgesBetween(a, b) ==
    {edges[a + 1][j] : j \in {k \in 1..Len(edges[a + 1]) : edges[a + 1][k].dest = b}}

\* The sums of edge data along p, one stored edge per consecutive pair.
RECURSIVE PathSums(_, _)
PathSums(p, i) ==
    IF i >= Len(p) THEN {0}
    ELSE {e.data + rest : e \in EdgesBetween(p[i], p[i + 1]), rest \in PathSums(p, i + 1)}

\* The directed paths that start with the path p, visit no node twice and
\* end at b.
RECURSIVE PathsTo(_, _)
PathsTo(p, b) ==
    LET last == p[Len(p)]
        seen == {p[i] : i \in 1..Len(p)}
    IN  IF last = b THEN {p}
        ELSE UNION {PathsTo(Append(p, n), b) : n \in (Successors(last) \cap Ids) \ seen}

\* The least sum of edge costs over the directed paths from a to b.  With
\* costs >= 0 a path that visits a node twice is no cheaper than the path
\* without the round trip, so the paths of PathsTo decide the minimum.
MinCost(a, b) == Least(UNION {PathSums(p, 1) : p \in PathsTo(<<a>>, b)})

Distinct(seq) ==
    \A i \in 1..Len(seq) : \A j \in 1..Len(seq) : seq[i] = seq[j] => i = j

(* C1: on a graph whose edges all point at nodes, for valid from and to    *)
(* with a directed path from from to to, shortest_path returns a result    *)
(* whose cost is the least sum of edge costs over the directed paths.      *)

Claim_C1 ==
    (PathReturned /\ ValidTargets /\ from_node \in Ids /\ to_node \in Ids
        /\ to_node \in ReachableFrom({from_node})) =>
        /\ ret.status = "ok"
        /\ is_some(ret.val)
        /\ unwrap(ret.val).cost = MinCost(from_node, to_node)

\* The path through a third node beats the direct edge, whose entry is
\* still in the queue when the loop stops.
Witness_C1 ==
    /\ PathReturned /\ ValidTargets /\ ret.status = "ok" /\ is_some(ret.val)
    /\ Len(unwrap(ret.val).path) = 3
    /\ unwrap(ret.val).cost = 2
    /\ \E e \in EdgesBetween(from_node, to_node) : e.data = 3
    /\ \E n \in BagToSet(pq) : n.node = to_node /\ n.cost = 3

(* C2: for valid from and to, shortest_path returns none exactly when no   *)
(* directed path leads from from to to, and never fails.                   *)

Claim_C2 ==
    (PathReturned /\ from_node \in Ids /\ to_node \in Ids) =>
        /\ ret.status = "ok"
        /\ ~is_some(ret.val) <=> to_node \notin ReachableFrom({from_node})

\* The same on the graphs whose edges all point at nodes.
NoneIffNoPathOnValidGraphs == ValidTargets => Claim_C2

(* C3: a returned path starts with from, ends with to, has a stored edge   *)
(* for every consecutive pair, and the returned cost is the sum of the     *)
(* data of one such edge per pair; the walk back over prev always finds a  *)
(* predecessor, never comes back to a node and so reaches from.            *)

Claim_C3 ==
    /\ (PathReturned /\ ret.status = "ok" /\ is_some(ret.val)) =>
          LET r == unwrap(ret.val)
          IN  /\ r.path[1] = from_node
              /\ r.path[Len(r.path)] = to_node
              /\ Distinct(r.path)
              /\ \A i \in 1..(Len(r.path) - 1) :
                    EdgesBetween(r.path[i], r.path[i + 1]) # {}
              /\ r.cost \in PathSums(r.path, 1)
    /\ pc = "walk" =>
          /\ current # from_node
          /\ is_some(prev[current + 1])
          /\ Distinct(Append(path, current))
          /\ Len(path) < node_count
          /\ ENABLED WalkStep
    /\ PathReturned => ret.status # "unwrap_none"

\* A path of two edges, the first one chosen among two parallel edges of
\* different cost, with a zero-cost edge on it.
Witness_C3 ==
    /\ PathReturned /\ ret.status = "ok" /\ is_some(ret.val)
    /\ Len(unwrap(ret.val).path) = 3
    /\ Cardinality(EdgesBetween(unwrap(ret.val).path[1], unwrap(ret.val).path[2])) = 2
    /\ \E e \in EdgesBetween(unwrap(ret.val).path[1], unwrap(ret.val).path[2]) : e.data = 0
    /\ unwrap(ret.val).cost = 1

----------------------------------------------------------------------------
(* C10: get, connections, connect (its from), visit_breadth_first (its     *)
(* start node) and shortest_path (its from or its to), given an            *)
(* identifier >= node_count, end in an out-of-bounds failure, call no      *)
(* visitor and leave nodes and edges as they were.                         *)

InCall == pc \in {"bfs", "sp", "walk"}

OutOfBoundsFails ==
    /\ \A id \in node_count..(MaxNodes + 1) :
          /\ get(id) = Failed("get", <<id>>, "out_of_bounds")
          /\ connections(id) = Failed("connections", <<id>>, "out_of_bounds")
    /\ (pc = "returned" /\ ret.op \in {"get", "connections", "connect"}
            /\ ~(ret.args[1] < node_count))
          => ret.status = "out_of_bounds"
    /\ ((InTraversal \/ TraversalReturned) /\ ~(from_index < node_count))
          => /\ visitLog = <<>>
             /\ TraversalReturned => ret.status = "out_of_bounds"
    /\ (PathReturned /\ ~(from_node < node_count /\ to_node < node_count))
          => ret.status = "out_of_bounds"
    /\ pc = "walk" => to_node < node_count

FailureKeepsGraph ==
    (\/ InCall
     \/ pc' \in {"bfs", "sp", "walk"}
     \/ /\ pc' = "returned"
        /\ ret'.status = "out_of_bounds"
        /\ ret'.op \in {"get", "connections", "connect",
                        "visit_breadth_first", "shortest_path"})
        => (nodes' = nodes /\ edges' = edges)

Claim_C10 ==
    /\ []OutOfBoundsFails
    /\ [][FailureKeepsGraph]_vars
    /\ InCall ~> (pc = "returned")

\* shortest_path from a node of the graph to an identifier out of bounds:
\* the loop ran over the edges before the call failed.
Witness_C10 ==
    /\ PathReturned
    /\ from_node < node_count /\ ~(to_node < node_count)
    /\ ret.status = "out_of_bounds"
    /\ \E v \in Ids : v # from_node /\ is_some(dist[v + 1])
    /\ pq = EmptyBag

=============================================================================
